---------------------------- MODULE Spec2Model ----------------------------
(***************************************************************************)
(* MediBridge Bangalore API (src/main.py, src/schemas.py): the endpoint    *)
(* handlers over the document store, the start-up seeding step, the cost   *)
(* estimator of POST /recommend and the utility endpoints.                 *)
(*                                                                         *)
(* Representation.                                                         *)
(*  - Text that the code inspects character by character (hospital names,  *)
(*    the q pattern, phone numbers, the WhatsApp text, URLs) is a sequence  *)
(*    of one-character strings.  Text that is only compared whole          *)
(*    (specialties, categories, foreign ids) is a TLA+ string.             *)
(*  - An Optional request parameter is None (the empty tuple) or Some(v).  *)
(*  - A stored Optional field that is null holds Null.                     *)
(*  - Money is counted in tenths of a rupee, the adjustment factor in      *)
(*    hundredths, their product in thousandths of a rupee and the rounded  *)
(*    estimate in hundredths of a rupee (paise).                           *)
(*  - An ObjectId is a natural number; str(ObjectId) is its decimal text.  *)
(***************************************************************************)
EXTENDS Integers, Sequences, FiniteSets, TLC

(***************************************************************************)
(* Bounds of the model.                                                    *)
(***************************************************************************)
\* requests that create a record, per behaviour
MaxCreates == 2
\* comorbidity tags in one /recommend request
MaxComorbidities == 2
\* characters of the q parameter of GET /hospitals
MaxQLen == 1
\* characters of phone_e164
MaxPhoneLen == 2
\* characters of the text parameter of GET /contact/whatsapp
MaxTextLen == 1
\* documents removed from the store by an outside actor, per behaviour
MaxDeletes == 2

(***************************************************************************)
(* Optional values and sequences.                                          *)
(***************************************************************************)
None == <<>>

Some(v) == <<v>>

Null == "null"

\* Python truthiness of an Optional[str] parameter: `if q:` is false for
\* None and for the empty string.
Truthy(o, empty) == o # None /\ o[1] # empty

RECURSIVE SeqsUpTo(_, _)
SeqsUpTo(S, n) ==
    IF n = 0 THEN {<<>>}
    ELSE LET shorter == SeqsUpTo(S, n - 1)
         IN  shorter \cup {Append(s, c) : s \in shorter, c \in S}

Take(s, n) == SubSeq(s, 1, IF Len(s) < n THEN Len(s) ELSE n)

RECURSIVE Concat(_)
Concat(ss) == IF ss = <<>> THEN <<>> ELSE Head(ss) \o Concat(Tail(ss))

\* s without its i-th element
RemoveAt(s, i) == SubSeq(s, 1, i - 1) \o SubSeq(s, i + 1, Len(s))

MinOf(S) == CHOOSE x \in S : \A y \in S : x <= y

MaxOf(S) == CHOOSE x \in S : \A y \in S : x >= y

(***************************************************************************)
(* Letter case.                                                            *)
(***************************************************************************)
UpperChars ==
    <<"A", "B", "C", "D", "E", "F", "G", "H", "I", "J", "K", "L", "M",
      "N", "O", "P", "Q", "R", "S", "T", "U", "V", "W", "X", "Y", "Z">>

LowerChars ==
    <<"a", "b", "c", "d", "e", "f", "g", "h", "i", "j", "k", "l", "m",
      "n", "o", "p", "q", "r", "s", "t", "u", "v", "w", "x", "y", "z">>

Digits == {"0", "1", "2", "3", "4", "5", "6", "7", "8", "9"}

Lower(c) ==
    IF \E i \in 1..Len(UpperChars) : UpperChars[i] = c
    THEN LowerChars[CHOOSE i \in 1..Len(UpperChars) : UpperChars[i] = c]
    ELSE c

LowerStr(s) == [i \in 1..Len(s) |-> Lower(s[i])]

\* s holds sub as a literal contiguous run of characters
Contains(s, sub) ==
    \E k \in 0..(Len(s) - Len(sub)) :
        \A i \in 1..Len(sub) : s[k + i] = sub[i]


(***************************************************************************)
(* The store's pattern match: {"$regex": q, "$options": "i"}.  The q       *)
(* parameter reaches the store as a regular expression, unescaped.  The    *)
(* patterns of this model are built from letters, digits, spaces and ".":  *)
(* a letter, digit or space is a literal atom, "." is the atom that        *)
(* matches any one character.  Every atom consumes exactly one character,  *)
(* and a regex match is a search: it may start at any position.            *)
(***************************************************************************)
AtomMatches(atom, c, options) ==
    \/ atom = "."
    \/ IF options = "i" THEN Lower(atom) = Lower(c) ELSE atom = c

RegexSearch(pattern, text, options) ==
    \E k \in 0..(Len(text) - Len(pattern)) :
        \A i \in 1..Len(pattern) : AtomMatches(pattern[i], text[k + i], options)

(***************************************************************************)
(* urllib.parse.urlencode({"text": text}): the key, "=", and               *)
(* quote_plus(text).  quote_plus keeps letters, digits and "_.-~", turns   *)
(* a space into "+" and writes every other character as "%" and the two    *)
(* upper-case hex digits of its byte.                                      *)
(***************************************************************************)
IsUnreserved(c) ==
    \/ \E i \in 1..Len(UpperChars) : UpperChars[i] = c \/ LowerChars[i] = c
    \/ c \in Digits
    \/ c \in {"_", ".", "-", "~"}

\* the hex digits of the ASCII code of the punctuation the model sends
AsciiHex(c) ==
    CASE c = "+" -> <<"2", "B">>
      [] c = "&" -> <<"2", "6">>
      [] c = "=" -> <<"3", "D">>
      [] c = "?" -> <<"3", "F">>
      [] c = "%" -> <<"2", "5">>
      [] c = "/" -> <<"2", "F">>

QuotePlusChar(c) ==
    IF IsUnreserved(c) THEN <<c>>
    ELSE IF c = " " THEN <<"+">>
    ELSE <<"%">> \o AsciiHex(c)

quote_plus(text) == Concat([i \in 1..Len(text) |-> QuotePlusChar(text[i])])

urlencode_text(text) == <<"t", "e", "x", "t", "=">> \o quote_plus(text)

(***************************************************************************)
(* GET /contact/whatsapp                                                   *)
(***************************************************************************)
WaMe == <<"h", "t", "t", "p", "s", ":", "/", "/", "w", "a", ".", "m", "e", "/">>

\* phone_e164.replace("+", ""): every "+" is removed
StripPlus(phone) == SelectSeq(phone, LAMBDA c : c # "+")

WhatsappUrl(phone_e164, text) ==
    LET base == WaMe \o StripPlus(phone_e164)
    IN  IF Truthy(text, <<>>)
        THEN base \o <<"?">> \o urlencode_text(text[1])
        ELSE base

(***************************************************************************)
(* base64.b64encode(content).decode("utf-8")                               *)
(***************************************************************************)
B64Alphabet ==
    <<"A", "B", "C", "D", "E", "F", "G", "H", "I", "J", "K", "L", "M",
      "N", "O", "P", "Q", "R", "S", "T", "U", "V", "W", "X", "Y", "Z",
      "a", "b", "c", "d", "e", "f", "g", "h", "i", "j", "k", "l", "m",
      "n", "o", "p", "q", "r", "s", "t", "u", "v", "w", "x", "y", "z",
      "0", "1", "2", "3", "4", "5", "6", "7", "8", "9", "+", "/">>

B64Char(sextet) == B64Alphabet[sextet + 1]

RECURSIVE b64encode(_)
b64encode(bytes) ==
    IF Len(bytes) = 0 THEN <<>>
    ELSE IF Len(bytes) = 1 THEN
        LET n == bytes[1] * 65536
        IN  <<B64Char(n \div 262144), B64Char((n \div 4096) % 64), "=", "=">>
    ELSE IF Len(bytes) = 2 THEN
        LET n == bytes[1] * 65536 + bytes[2] * 256
        IN  <<B64Char(n \div 262144), B64Char((n \div 4096) % 64),
              B64Char((n \div 64) % 64), "=">>
    ELSE
        LET n == bytes[1] * 65536 + bytes[2] * 256 + bytes[3]
        IN  <<B64Char(n \div 262144), B64Char((n \div 4096) % 64),
              B64Char((n \div 64) % 64), B64Char(n % 64)>>
            \o b64encode(SubSeq(bytes, 4, Len(bytes)))

(***************************************************************************)
(* The estimator's arithmetic (recommend).  The factor is in hundredths.   *)
(***************************************************************************)
\* adj = 1.0
AdjBase == 100
\* adj = 0.9 when preference == "cost"
AdjCost == 90
\* adj = 1.1 when preference == "success"
AdjSuccess == 110
\* adj += 0.05 * len(comorbidities)
AdjPerComorbidity == 5

\* variant: the comorbidity term scaled by the preference multiplier
AdjustmentScaledByPreference(preference, comorbidities) ==
    LET m == IF preference = Some("cost") THEN AdjCost
             ELSE IF preference = Some("success") THEN AdjSuccess
             ELSE AdjBase
    IN  (m * (AdjBase + AdjPerComorbidity * Len(comorbidities))) \div AdjBase

\* adj after lines 168-173
Adjustment(preference, comorbidities) ==
    LET adj == IF preference = Some("cost") THEN AdjCost
               ELSE IF preference = Some("success") THEN AdjSuccess
               ELSE AdjBase
    IN  adj + AdjPerComorbidity * Len(comorbidities)

\* round(x, 2) of a product counted in thousandths: the hundredths it may
\* return.  The product is a binary double, so a decimal tie (a last digit
\* of 5) lands just above or just below the half and Python rounds it up
\* for some operands and down for others (0.1 * 1.05 gives 0.11,
\* 1.3 * 1.25 gives 1.62): both neighbours are outcomes.
Round2(thousandths) ==
    LET q == thousandths \div 10
        r == thousandths % 10
    IN  IF r < 5 THEN {q} ELSE IF r > 5 THEN {q + 1} ELSE {q, q + 1}

(***************************************************************************)
(* State.                                                                  *)
(***************************************************************************)
VARIABLES
    connected,  \* `db is not None`: the process has a database handle
    started,    \* the process has run its startup event
    mongo,      \* the document database: docs, names, next
    resp,       \* the response to the latest request (op, req, status, body)
    created,    \* history: what every create endpoint returned
    seeded,     \* history: the startup step has inserted sample records
    deletes     \* history: documents removed by an outside actor

vars == <<connected, started, mongo, resp, created, seeded, deletes>>

Collections ==
    {"hospital", "doctor", "treatment", "appointment", "travelrequest",
     "chatmessage", "document", "review", "analyticsevent"}

\* 200 OK (every handler's normal return)
HTTP_OK == 200
\* HTTPException(404, ...)
HTTP_NOT_FOUND == 404

(***************************************************************************)
(* Record Store Adapter: create_document and get_documents over the        *)
(* document database.                                                      *)
(***************************************************************************)
EmptyMongo ==
    [docs |-> [c \in Collections |-> <<>>], names |-> {}, next |-> 1]

\* insert(collection, record) -> id: the record is stored under a newly
\* generated identifier.
create_document(d, collection, data) ==
    [docs  |-> [d.docs EXCEPT ![collection] = Append(@, data @@ ("_id" :> d.next))],
     names |-> d.names \cup {collection},
     next  |-> d.next + 1]

\* the identifier create_document returns for an insert into d
inserted_id(d) == ToString(d.next)

\* one constraint of a filter against one record
ConstraintHolds(doc, c) ==
    /\ c.field \in DOMAIN doc
    /\ CASE c.kind = "eq"    -> doc[c.field] = c.value
         [] c.kind = "regex" -> RegexSearch(c.pattern, doc[c.field], c.options)
         [] c.kind = "in"    ->
                \E j \in 1..Len(doc[c.field]) :
                    \E k \in 1..Len(c.values) : doc[c.field][j] = c.values[k]

Matches(doc, filt) == \A i \in 1..Len(filt) : ConstraintHolds(doc, filt[i])

\* query(collection, filter) -> the matching records, in storage order
get_documents(d, collection, filt) ==
    SelectSeq(d.docs[collection], LAMBDA doc : Matches(doc, filt))

\* db.list_collection_names()
list_collection_names(d) == d.names

\* db.<collection>.count_documents({})
count_documents(d, collection) == Len(d.docs[collection])

(***************************************************************************)
(* Records.  A record keeps the fields some handler reads (name,           *)
(* specialties, category, the two costs, the foreign ids) and one or two   *)
(* of the fields that are only stored.                                     *)
(***************************************************************************)
SeedHospitals ==
    << [name |-> <<"N", "a", "r", "a", "y", "a", "n", "a", " ", "H", "e", "a",
                   "l", "t", "h", " ", "C", "i", "t", "y">>,
        type |-> "multi-specialty",
        specialties |-> <<"cardiac", "orthopedic", "oncology", "neuro">>],
       [name |-> <<"M", "a", "n", "i", "p", "a", "l", " ", "H", "o", "s", "p",
                   "i", "t", "a", "l", " ", "O", "l", "d", " ", "A", "i", "r",
                   "p", "o", "r", "t", " ", "R", "o", "a", "d">>,
        type |-> "multi-specialty",
        specialties |-> <<"cardiac", "fertility", "orthopedic", "dental">>] >>

SeedTreatments ==
    << [name |-> "CABG - Coronary Bypass", category |-> "cardiac",
        average_cost_inr_min |-> 2500000, average_cost_inr_max |-> 4500000],
       [name |-> "Total Knee Replacement", category |-> "orthopedic",
        average_cost_inr_min |-> 1800000, average_cost_inr_max |-> 3500000],
       [name |-> "Dental Implants", category |-> "dental",
        average_cost_inr_min |-> 250000, average_cost_inr_max |-> 600000] >>

\* request bodies of POST /hospitals
HospitalPayloads ==
    { [name |-> <<"A", ".", "b">>, type |-> "clinic",
       specialties |-> <<"dental", "cosmetic">>],
      [name |-> <<"a", "b">>, type |-> "specialty",
       specialties |-> <<"Cardiac", "card">>] }

\* request bodies of POST /doctors
DoctorPayloads ==
    { [name |-> "Dr Rao", hospital_id |-> "1", specialty |-> "cardiac"] }

\* request bodies of POST /treatments (the schema does not order the costs)
TreatmentPayloads ==
    { [name |-> "Root Canal", category |-> "dental",
       average_cost_inr_min |-> 13, average_cost_inr_max |-> 21],
      [name |-> "Angioplasty", category |-> "cardiac",
       average_cost_inr_min |-> 3000000, average_cost_inr_max |-> 5000001] }

\* request bodies of POST /reviews
ReviewPayloads ==
    { [patient_id |-> "p1", hospital_id |-> h, doctor_id |-> Null, rating |-> 5]
        : h \in {Null, "1"} }

AppointmentPayloads ==
    { [patient_id |-> "p1", doctor_id |-> "d1", hospital_id |-> "1",
       datetime_iso |-> "2025-01-01T10:00:00", type |-> "in_person",
       status |-> "pending"] }

TravelRequestPayloads == { [patient_id |-> "p1", passengers |-> 1] }

ChatMessagePayloads ==
    { [room_id |-> "r1", sender_id |-> "p1", sender_role |-> "patient",
       content |-> "hello", type |-> "text"] }

AnalyticsEventPayloads == { [user_id |-> Null, event |-> "page_view"] }

\* the file parts of POST /documents/upload: an empty file sent without a
\* content type, and a file of two bytes
Files ==
    { [content_type |-> None, content |-> <<>>],
      [content_type |-> Some("application/pdf"), content |-> <<77, 250>>] }

(***************************************************************************)
(* Request parameters.                                                     *)
(***************************************************************************)
QParams == {None} \cup {Some(q) : q \in SeqsUpTo({"a", "B", "."}, MaxQLen)}

SpecialtyParams == {None, Some(""), Some("cardiac"), Some("card")}

HospitalIdParams == {None, Some("1")}

CategoryParams == {None, Some("dental")}

RecommendRequests ==
    [treatment_category : {"cardiac", "dental", "cosmetic"},
     preference : {None, Some("cost"), Some("success"), Some("speed")},
     comorbidities : SeqsUpTo({"diabetes"}, MaxComorbidities)]

Phones == SeqsUpTo({"+", "9"}, MaxPhoneLen)

Texts == {None} \cup {Some(t) : t \in SeqsUpTo({" ", "&"}, MaxTextLen)}

(***************************************************************************)
(* Handlers: what each computes.                                           *)
(***************************************************************************)
\* variant: h["id"] = str(h["_id"]), the "_id" key left in the record
NormalizeIdKeepingKey(doc) ==
    IF "_id" \in DOMAIN doc THEN doc @@ ("id" :> ToString(doc["_id"])) ELSE doc

\* h["id"] = str(h.pop("_id")), when the record has an "_id"
NormalizeId(doc) ==
    IF "_id" \in DOMAIN doc
    THEN [k \in (DOMAIN doc \ {"_id"}) \cup {"id"} |->
            IF k = "id" THEN ToString(doc["_id"]) ELSE doc[k]]
    ELSE doc

NormalizeIds(docs) == [i \in 1..Len(docs) |-> NormalizeId(docs[i])]

Eq(field, value) == [field |-> field, kind |-> "eq", value |-> value]

\* variant: the specialty constraint as list_doctors writes it,
\* filt["specialty"] = specialty
HospitalFilterWrongField(q, specialty) ==
    (IF Truthy(q, <<>>)
     THEN <<[field |-> "name", kind |-> "regex", pattern |-> q[1], options |-> "i"]>>
     ELSE <<>>)
    \o (IF Truthy(specialty, "") THEN <<Eq("specialty", specialty[1])>> ELSE <<>>)

\* the filter list_hospitals builds
HospitalFilter(q, specialty) ==
    (IF Truthy(q, <<>>)
     THEN <<[field |-> "name", kind |-> "regex", pattern |-> q[1], options |-> "i"]>>
     ELSE <<>>)
    \o (IF Truthy(specialty, "")
        THEN <<[field |-> "specialties", kind |-> "in", values |-> <<specialty[1]>>]>>
        ELSE <<>>)

ListHospitals(d, q, specialty) ==
    NormalizeIds(get_documents(d, "hospital", HospitalFilter(q, specialty)))

DoctorFilter(hospital_id, specialty) ==
    (IF Truthy(hospital_id, "") THEN <<Eq("hospital_id", hospital_id[1])>> ELSE <<>>)
    \o (IF Truthy(specialty, "") THEN <<Eq("specialty", specialty[1])>> ELSE <<>>)

ListDoctors(d, hospital_id, specialty) ==
    NormalizeIds(get_documents(d, "doctor", DoctorFilter(hospital_id, specialty)))

TreatmentFilter(category) ==
    IF Truthy(category, "") THEN <<Eq("category", category[1])>> ELSE <<>>

ListTreatments(d, category) ==
    NormalizeIds(get_documents(d, "treatment", TreatmentFilter(category)))

ReviewFilter(hospital_id, doctor_id) ==
    (IF Truthy(hospital_id, "") THEN <<Eq("hospital_id", hospital_id[1])>> ELSE <<>>)
    \o (IF Truthy(doctor_id, "") THEN <<Eq("doctor_id", doctor_id[1])>> ELSE <<>>)

ListReviews(d, hospital_id, doctor_id) ==
    NormalizeIds(get_documents(d, "review", ReviewFilter(hospital_id, doctor_id)))

\* t.get(key, 0)
Get(doc, key, default) == IF key \in DOMAIN doc THEN doc[key] ELSE default

\* variant: the first matched treatment's minimum cost
EstMinOfFirst(treatments) == Get(treatments[1], "average_cost_inr_min", 0)

\* min(t.get("average_cost_inr_min", 0) for t in treatments)
EstMin(treatments) ==
    MinOf({Get(treatments[i], "average_cost_inr_min", 0) : i \in 1..Len(treatments)})

\* max(t.get("average_cost_inr_max", 0) for t in treatments)
EstMax(treatments) ==
    MaxOf({Get(treatments[i], "average_cost_inr_max", 0) : i \in 1..Len(treatments)})

\* variant: every treatment, whatever its category
RecommendTreatmentsOfAnyCategory(d, req) == get_documents(d, "treatment", <<>>)

\* the treatments recommend fetches
RecommendTreatments(d, req) ==
    get_documents(d, "treatment", <<Eq("category", req.treatment_category)>>)

\* the responses of recommend: one, or, when a product is a decimal tie,
\* one for each way round() may take it
Recommend(d, req) ==
    LET treatments == RecommendTreatments(d, req)
    IN  IF treatments = <<>>
        THEN {[status |-> HTTP_NOT_FOUND,
               body |-> [detail |-> "No treatments found for category"]]}
        ELSE
          LET est_min == EstMin(treatments)
              est_max == EstMax(treatments)
              adj == Adjustment(req.preference, req.comorbidities)
              hospitals ==
                  get_documents(d, "hospital",
                      <<[field |-> "specialties", kind |-> "in",
                         values |-> <<req.treatment_category>>]>>)
          IN  {[status |-> HTTP_OK,
                adj |-> adj,
                body |->
                  [recommended_treatments |->
                       Take([i \in 1..Len(treatments) |-> treatments[i].name], 5),
                   estimated_cost_inr |-> [min |-> lo, max |-> hi],
                   suggested_hospitals |->
                       Take([i \in 1..Len(hospitals) |-> hospitals[i].name], 5)]]
                 : lo \in Round2(est_min * adj), hi \in Round2(est_max * adj)}

\* variant: recommend records the request as an analytics event
RecommendLogsEstimate(d, req) ==
    create_document(d, "analyticsevent",
                    [user_id |-> Null, event |-> req.treatment_category])

\* what recommend writes to the store: nothing
RecommendStore(d, req) == d

\* variant: a create that replaces the stored hospitals of the same name
CreateHospitalReplacingSameName(d, payload) ==
    create_document(
        [d EXCEPT !.docs["hospital"] =
            SelectSeq(@, LAMBDA doc : doc.name # payload.name)],
        "hospital", payload)

\* what each create handler writes to the store
CreateHospitalStore(d, payload) == create_document(d, "hospital", payload)

CreateDoctorStore(d, payload) == create_document(d, "doctor", payload)

CreateTreatmentStore(d, payload) == create_document(d, "treatment", payload)

CreateReviewStore(d, payload) == create_document(d, "review", payload)

\* the Document record upload_document builds
UploadedDocument(patient_id, filename, content_type, content) ==
    [patient_id    |-> patient_id,
     filename      |-> filename,
     content_type  |-> IF Truthy(content_type, "") THEN content_type[1]
                       ELSE "application/octet-stream",
     encrypted_b64 |-> b64encode(content),
     size_bytes    |-> Len(content)]

\* the two seeding steps of seed_sample
SeedHospitalsStep(d) ==
    IF "hospital" \notin list_collection_names(d) \/ count_documents(d, "hospital") = 0
    THEN create_document(create_document(d, "hospital", SeedHospitals[1]),
                         "hospital", SeedHospitals[2])
    ELSE d

SeedTreatmentsStep(d) ==
    IF "treatment" \notin list_collection_names(d) \/ count_documents(d, "treatment") = 0
    THEN create_document(
             create_document(create_document(d, "treatment", SeedTreatments[1]),
                             "treatment", SeedTreatments[2]),
             "treatment", SeedTreatments[3])
    ELSE d

(***************************************************************************)
(* Initial state: a process that has not started, over an empty database   *)
(* (or with no database configured).                                       *)
(***************************************************************************)
Init ==
    /\ connected \in BOOLEAN
    /\ started = FALSE
    /\ mongo = EmptyMongo
    /\ resp = [op |-> "none"]
    /\ created = {}
    /\ seeded = FALSE
    /\ deletes = 0

(***************************************************************************)
(* Actions.  A handler that reads or writes the store is modelled for a    *)
(* process whose database handle is set (started /\ connected).  The       *)
(* startup step runs at every start of the process, the first and every    *)
(* restart.                                                                *)
(***************************************************************************)
\* Requests are served one at a time: a handler takes a request when no
\* response is waiting to be returned.
Idle == resp.op = "none"

Reply(op, req, status, body) ==
    /\ Idle
    /\ resp' = [op |-> op, req |-> req, status |-> status, body |-> body]

seed_sample ==
    /\ Idle
    /\ started' = TRUE
    /\ IF ~connected
       THEN UNCHANGED <<mongo, seeded>>
       ELSE /\ mongo' = SeedTreatmentsStep(SeedHospitalsStep(mongo))
            /\ seeded' = (seeded \/ mongo' # mongo)
    /\ resp' = [op |-> "startup"]
    /\ UNCHANGED <<connected, created, deletes>>

root ==
    /\ started
    /\ Reply("root", None, HTTP_OK, [app |-> "MediBridge Bangalore API", status |-> "ok"])
    /\ UNCHANGED <<connected, started, mongo, created, seeded, deletes>>

test_database ==
    /\ started
    /\ Reply("test_database", None, HTTP_OK,
             [backend |-> "running",
              database |-> IF connected THEN "connected" ELSE "not connected",
              collections |-> IF connected THEN list_collection_names(mongo) ELSE {}])
    /\ UNCHANGED <<connected, started, mongo, created, seeded, deletes>>

\* the part every create handler shares: the insert and the {"id": ...} reply
Created(op, collection, payload, d) ==
    /\ started /\ connected
    /\ Cardinality(created) < MaxCreates
    /\ mongo' = d
    /\ Reply(op, payload, HTTP_OK, [id |-> inserted_id(mongo)])
    /\ created' = created \cup
           {[collection |-> collection, id |-> inserted_id(mongo), payload |-> payload]}
    /\ UNCHANGED <<connected, started, seeded, deletes>>

\* the part every read-only handler shares
Queried(op, req, body) ==
    /\ started /\ connected
    /\ Reply(op, req, HTTP_OK, body)
    /\ UNCHANGED <<connected, started, mongo, created, seeded, deletes>>

list_hospitals ==
    \E q \in QParams, specialty \in SpecialtyParams :
        Queried("list_hospitals", [q |-> q, specialty |-> specialty],
                ListHospitals(mongo, q, specialty))

create_hospital ==
    \E payload \in HospitalPayloads :
        Created("create_hospital", "hospital", payload,
                CreateHospitalStore(mongo, payload))

list_doctors ==
    \E hospital_id \in HospitalIdParams, specialty \in SpecialtyParams :
        Queried("list_doctors", [hospital_id |-> hospital_id, specialty |-> specialty],
                ListDoctors(mongo, hospital_id, specialty))

create_doctor ==
    \E payload \in DoctorPayloads :
        Created("create_doctor", "doctor", payload, CreateDoctorStore(mongo, payload))

list_treatments ==
    \E category \in CategoryParams :
        Queried("list_treatments", [category |-> category],
                ListTreatments(mongo, category))

create_treatment ==
    \E payload \in TreatmentPayloads :
        Created("create_treatment", "treatment", payload,
                CreateTreatmentStore(mongo, payload))

recommend ==
    /\ Idle
    /\ started /\ connected
    /\ \E req \in RecommendRequests :
         /\ \E r \in Recommend(mongo, req) :
                resp' = r @@ [op |-> "recommend", req |-> req]
         /\ mongo' = RecommendStore(mongo, req)
    /\ UNCHANGED <<connected, started, created, seeded, deletes>>

create_appointment ==
    \E payload \in AppointmentPayloads :
        Created("create_appointment", "appointment", payload,
                create_document(mongo, "appointment", payload))

create_travel_request ==
    \E payload \in TravelRequestPayloads :
        Created("create_travel_request", "travelrequest", payload,
                create_document(mongo, "travelrequest", payload))

send_message ==
    \E payload \in ChatMessagePayloads :
        Created("send_message", "chatmessage", payload,
                create_document(mongo, "chatmessage", payload))

upload_document ==
    \E file \in Files :
        LET doc == UploadedDocument("p1", "scan.pdf", file.content_type, file.content)
        IN  Created("upload_document", "document", doc,
                    create_document(mongo, "document", doc))

create_review ==
    \E payload \in ReviewPayloads :
        Created("create_review", "review", payload, CreateReviewStore(mongo, payload))

list_reviews ==
    \E hospital_id \in HospitalIdParams, doctor_id \in {None, Some("d1")} :
        Queried("list_reviews", [hospital_id |-> hospital_id, doctor_id |-> doctor_id],
                ListReviews(mongo, hospital_id, doctor_id))

track_event ==
    \E payload \in AnalyticsEventPayloads :
        Created("track_event", "analyticsevent", payload,
                create_document(mongo, "analyticsevent", payload))

languages ==
    /\ started
    /\ Reply("languages", None, HTTP_OK,
             [supported |-> <<"en", "ar", "fr", "ru", "es", "bn", "ne", "ml", "kn">>,
              default |-> "en"])
    /\ UNCHANGED <<connected, started, mongo, created, seeded, deletes>>

whatsapp_link ==
    /\ started
    /\ \E phone_e164 \in Phones, text \in Texts :
         Reply("whatsapp_link", [phone_e164 |-> phone_e164, text |-> text], HTTP_OK,
               [url |-> WhatsappUrl(phone_e164, text)])
    /\ UNCHANGED <<connected, started, mongo, created, seeded, deletes>>

\* The framework returns the response to the client; the next request may
\* then be served.
return_response ==
    /\ ~Idle
    /\ resp' = [op |-> "none"]
    /\ UNCHANGED <<connected, started, mongo, created, seeded, deletes>>

\* Not an operation of this system: someone with access to the database
\* removes one document.
ExternalDelete ==
    /\ Idle
    /\ deletes < MaxDeletes
    /\ \E c \in Collections : \E i \in 1..Len(mongo.docs[c]) :
         mongo' = [mongo EXCEPT !.docs[c] = RemoveAt(@, i)]
    /\ deletes' = deletes + 1
    /\ resp' = [op |-> "external_delete"]
    /\ UNCHANGED <<connected, started, created, seeded>>

Next ==
    \/ seed_sample
    \/ root
    \/ test_database
    \/ list_hospitals
    \/ create_hospital
    \/ list_doctors
    \/ create_doctor
    \/ list_treatments
    \/ create_treatment
    \/ recommend
    \/ create_appointment
    \/ create_travel_request
    \/ send_message
    \/ upload_document
    \/ create_review
    \/ list_reviews
    \/ track_event
    \/ languages
    \/ whatsapp_link
    \/ return_response

\* the system alone
Spec == Init /\ [][Next]_vars

\* the system, and an outside actor deleting from its database
NextWithDeletes == Next \/ ExternalDelete

SpecWithDeletes == Init /\ [][NextWithDeletes]_vars

(***************************************************************************)
(* Properties.                                                             *)
(***************************************************************************)
ListedCollections == {"hospital", "doctor", "treatment", "review"}

\* the unfiltered call of a collection's list endpoint, in the current state
UnfilteredList(collection) ==
    CASE collection = "hospital"  -> ListHospitals(mongo, None, None)
      [] collection = "doctor"    -> ListDoctors(mongo, None, None)
      [] collection = "treatment" -> ListTreatments(mongo, None)
      [] collection = "review"    -> ListReviews(mongo, None, None)

\* C1: whatever has happened since, the unfiltered list of a collection
\* holds exactly one record under each id a create of that collection
\* returned (so no other stored record shares the id), and that record is
\* the created payload with the id attached as the field `id`.
C1_CreatedIsListedOnce ==
    \A c \in created :
        c.collection \in ListedCollections =>
            LET lst  == UnfilteredList(c.collection)
                hits == {i \in 1..Len(lst) : lst[i].id = c.id}
            IN  /\ Cardinality(hits) = 1
                /\ \A i \in hits : lst[i] = c.payload @@ ("id" :> c.id)

\* a hospital was created on top of the two seeded ones, and a later create
\* has been answered
C1_Witness ==
    /\ seeded
    /\ Len(mongo.docs["hospital"]) = 3
    /\ \E c \in created : c.collection = "hospital"
    /\ resp.op = "create_review"

\* C2: no step of the system removes or changes a stored record: every
\* record of every collection is still in that collection, with the same
\* id and the same fields, after the step.
C2_AppendOnly ==
    [][\A c \in Collections :
          \A i \in 1..Len(mongo.docs[c]) :
              \E j \in 1..Len(mongo'.docs[c]) : mongo'.docs[c][j] = mongo.docs[c][i]]_vars

\* records were seeded and created, and a hospital was created after another
\* of the same name
C2_Witness ==
    /\ seeded
    /\ resp.op = "create_hospital"
    /\ \E i, j \in 1..Len(mongo.docs["hospital"]) :
          i # j /\ mongo.docs["hospital"][i].name = mongo.docs["hospital"][j].name

\* C3: once the startup step has seeded, a later run of the startup step
\* leaves the hospital and the treatment collection as they are, also after
\* their records were deleted.
C3_SeedingFiresOnce ==
    [][(seeded /\ resp'.op = "startup") =>
          /\ mongo'.docs["hospital"] = mongo.docs["hospital"]
          /\ mongo'.docs["treatment"] = mongo.docs["treatment"]]_vars

\* C4: recommend answers 404 exactly when no stored treatment has the
\* requested category, and the 404 carries the error detail alone.
C4_NotFoundIffNoTreatment ==
    [][resp'.op = "recommend" =>
          LET stored == mongo.docs["treatment"]
              none   == \A i \in 1..Len(stored) :
                            stored[i].category # resp'.req.treatment_category
          IN  /\ none <=> resp'.status = HTTP_NOT_FOUND
              /\ none => DOMAIN resp'.body = {"detail"}
              /\ ~none => resp'.status = HTTP_OK]_vars

\* a 404, with treatments of other categories stored and a stored hospital
\* that has the requested category among its specialties
C4_Witness ==
    /\ resp.op = "recommend"
    /\ resp.status = HTTP_NOT_FOUND
    /\ resp.req.preference = Some("cost")
    /\ Len(resp.req.comorbidities) > 0
    /\ Len(mongo.docs["treatment"]) > 0
    /\ \E i \in 1..Len(mongo.docs["hospital"]) :
          \E j \in 1..Len(mongo.docs["hospital"][i].specialties) :
              mongo.docs["hospital"][i].specialties[j] = resp.req.treatment_category

\* the factor as the specification states it, in hundredths
StatedFactor(req) ==
    (CASE req.preference = Some("cost")    -> 90
       [] req.preference = Some("success") -> 110
       [] OTHER                            -> 100)
    + 5 * Len(req.comorbidities)

\* hundredths is thousandths rounded to two decimal places
IsRounded(hundredths, thousandths) ==
    /\ 10 * hundredths - thousandths <= 5
    /\ thousandths - 10 * hundredths <= 5

\* C5: the estimate's min is the least minimum cost over the stored
\* treatments of the requested category, times the factor, rounded to two
\* decimals, and its max the greatest maximum cost over the same
\* treatments, times the factor, rounded to two decimals.
C5_EstimateIsAdjustedMinMax ==
    [][(resp'.op = "recommend" /\ resp'.status = HTTP_OK) =>
          LET stored  == mongo.docs["treatment"]
              matched == {i \in 1..Len(stored) :
                              stored[i].category = resp'.req.treatment_category}
              lo      == MinOf({stored[i].average_cost_inr_min : i \in matched})
              hi      == MaxOf({stored[i].average_cost_inr_max : i \in matched})
              est     == resp'.body.estimated_cost_inr
          IN  /\ matched # {}
              /\ IsRounded(est.min, lo * StatedFactor(resp'.req))
              /\ IsRounded(est.max, hi * StatedFactor(resp'.req))]_vars

\* an estimate over two treatments of the category, the cheaper one stored
\* last, with treatments of other categories stored beside them
C5_Witness ==
    /\ resp.op = "recommend"
    /\ resp.status = HTTP_OK
    /\ resp.req.treatment_category = "dental"
    /\ Len(resp.body.recommended_treatments) = 2
    /\ resp.req.preference = Some("success")
    /\ Len(resp.req.comorbidities) = 1
    /\ resp.body.estimated_cost_inr.min = 150

\* C6: the factor recommend applies is m + 0.05 n: m is 0.9 for `cost`,
\* 1.1 for `success`, 1.0 otherwise, and n counts the comorbidity tags.
C6_FactorIsAdditive ==
    (resp.op = "recommend" /\ resp.status = HTTP_OK) =>
        resp.adj = StatedFactor(resp.req)

\* preference cost with two tags: 0.9 + 0.10, not 0.9 * 1.10
C6_Witness ==
    /\ resp.op = "recommend"
    /\ resp.status = HTTP_OK
    /\ resp.req.preference = Some("cost")
    /\ resp.req.comorbidities = <<"diabetes", "diabetes">>
    /\ resp.adj = 100

\* C7: the url is https://wa.me/ and the phone without its first character
\* when that is "+", every other character kept, then nothing when text is
\* absent or empty and ?text=<encoded text> otherwise.
C7_StripsOnlyLeadingPlus ==
    resp.op = "whatsapp_link" =>
        LET phone == resp.req.phone_e164
            text  == resp.req.text
        IN  resp.body.url =
                WaMe
                \o (IF phone # <<>> /\ Head(phone) = "+" THEN Tail(phone) ELSE phone)
                \o (IF text = None \/ text[1] = <<>> THEN <<>>
                    ELSE <<"?">> \o urlencode_text(text[1]))

HasSpecialty(hospital, specialty) ==
    \E j \in 1..Len(hospital.specialties) : hospital.specialties[j] = specialty

\* C8: with a non-empty specialty and no q, list_hospitals returns the
\* stored hospitals that have the parameter as an element of specialties,
\* each once, and no other.
C8_SpecialtyIsExactMembership ==
    [][(/\ resp'.op = "list_hospitals"
        /\ Truthy(resp'.req.specialty, "")
        /\ ~Truthy(resp'.req.q, <<>>)) =>
          LET stored == mongo.docs["hospital"]
              want   == {i \in 1..Len(stored) :
                            HasSpecialty(stored[i], resp'.req.specialty[1])}
              body   == resp'.body
          IN  /\ Len(body) = Cardinality(want)
              /\ {body[k].id : k \in 1..Len(body)}
                    = {ToString(stored[i]["_id"]) : i \in want}]_vars

\* specialty=cardiac returns the two seeded hospitals and leaves out a
\* stored hospital whose specialties are "Cardiac" and "card"
C8_Witness ==
    /\ resp.op = "list_hospitals"
    /\ resp.req.specialty = Some("cardiac")
    /\ resp.req.q = None
    /\ Len(resp.body) = 2
    /\ \E i \in 1..Len(mongo.docs["hospital"]) :
          HasSpecialty(mongo.docs["hospital"][i], "Cardiac")

\* C9: with a q and no specialty, list_hospitals returns a stored hospital
\* exactly when its name, letter case ignored, holds q as a literal
\* contiguous substring.
C9_QIsLiteralSubstring ==
    [][(/\ resp'.op = "list_hospitals"
        /\ Truthy(resp'.req.q, <<>>)
        /\ ~Truthy(resp'.req.specialty, "")) =>
          LET stored == mongo.docs["hospital"]
              body   == resp'.body
          IN  \A i \in 1..Len(stored) :
                  (\E k \in 1..Len(body) : body[k].id = ToString(stored[i]["_id"]))
                  <=> Contains(LowerStr(stored[i].name), LowerStr(resp'.req.q[1]))]_vars

\* C10: a recommend step, answered 200 or 404, leaves the database as it
\* was: every collection, the collection names and the id generator.
C10_RecommendIsReadOnly ==
    [][resp'.op = "recommend" => mongo' = mongo]_vars

\* recommend has answered over a store that holds created records
C10_Witness ==
    /\ resp.op = "recommend"
    /\ resp.status = HTTP_OK
    /\ Cardinality(created) = MaxCreates

=============================================================================
